---- MODULE Spec2Model ----
(***************************************************************************)
(* The relay servers of pay-to-play.  The repository holds three relay     *)
(* programs that share the wire protocol:                                  *)
(*   "persist"  - the file-backed relay with tombstones (kind 23 and 5),   *)
(*   "index"    - relay/index.js, in memory only (kind 4100 and 5),        *)
(*   "registry" - the relay with a subscription registry and broadcast.    *)
(* One behaviour runs one program; the variable relay names it.  A step    *)
(* is the handling of one inbound frame (the handlers never await), or a   *)
(* restart of the process from its files.                                  *)
(* SpecLoop runs the message handler of the persist relay phase by phase   *)
(* on the event loop; SpecPay runs the payment manager of the web client   *)
(* ("client"), round by round.                                             *)
(***************************************************************************)
EXTENDS Integers, Sequences, FiniteSets, TLC

VARIABLES relay,          \* which relay program this behaviour runs
          events,         \* the Map id -> event, as its entries in insertion order
          deletions,      \* the Set of tombstoned ids (persist only)
          eventsFile,     \* contents of events.json
          deletionsFile,  \* contents of deletions.json
          subscriptions,  \* the Map subId -> Set of ws, in insertion order (registry only)
          out,            \* the frames sent while handling the last frame, in order
          last,           \* the frame (or process event) handled last
          restarts,       \* number of process restarts so far
          running,        \* the process is up (FALSE once an exception has ended it)
          writeFailures,  \* number of file writes that have thrown so far
          shutdown,       \* the SIGINT handler has run: the server closes, the exit is pending
          loop,           \* the event loop at the grain of handler phases (SpecLoop only)
          pay             \* the web client's payment store and round (SpecPay only)

vars == <<relay, events, deletions, eventsFile, deletionsFile, subscriptions, out, last,
          restarts, running, writeFailures, shutdown, loop, pay>>

----------------------------------------------------------------------------
\* Bounds of the model.

MaxRestarts == 1
MaxFileLen == 2
MaxWriteFailures == 1
MaxLoopFrames == 3
MaxSplits == 2
MaxRounds == 2

\* Program constants.

MusicKind == 23
MusicKind4100 == 4100
DeletionKind == 5
TextNoteKind == 1

Relays == {"persist", "index", "registry"}
Conns == {1, 2}
SubIds == {"s1", "s2"}
Pubkeys == {"P", "Q"}

ContentKind(r) == IF r = "persist" THEN MusicKind ELSE MusicKind4100

----------------------------------------------------------------------------
\* Sequences and the JavaScript Map kept as a sequence of its values.

Range(s) == {s[i] : i \in 1..Len(s)}

RECURSIVE SeqsUpTo(_, _)
SeqsUpTo(S, n) ==
  IF n = 0 THEN {<<>>}
  ELSE LET shorter == SeqsUpTo(S, n - 1)
       IN shorter \cup {Append(s, x) : s \in {t \in shorter : Len(t) = n - 1}, x \in S}

MapHas(m, id) == \E i \in 1..Len(m) : m[i].id = id

MapGet(m, id) == m[CHOOSE i \in 1..Len(m) : m[i].id = id]

MapSet(m, e) ==
  IF MapHas(m, e.id)
  THEN [i \in 1..Len(m) |-> IF m[i].id = e.id THEN e ELSE m[i]]
  ELSE Append(m, e)

MapDelete(m, id) == SelectSeq(m, LAMBDA e : e.id # id)

MapKeys(m) == {m[i].id : i \in 1..Len(m)}

----------------------------------------------------------------------------
\* Events.  An id is the fingerprint of the event's content; the model keeps
\* a catalog of events with distinct ids.  Id 0 stands for the empty string.
\* shape is the outcome of validateEvent and sig the outcome of verifyEvent
\* (verifySignature in the registry relay) on the event as it is on the wire.

ETag(id) == <<"e", id>>
TTag(v) == <<"t", v>>

Event(id, pubkey, kind, tags) ==
  [id |-> id, pubkey |-> pubkey, kind |-> kind, tags |-> tags, shape |-> TRUE, sig |-> TRUE]

EventA(r) == Event(1, "P", ContentKind(r), <<TTag("music")>>)
EventB(r) == Event(2, "Q", ContentKind(r), <<>>)
EventU    == Event(3, "P", TextNoteKind, <<TTag("music")>>)

ContentIds == {1, 2}

\* The e-tag lists of the deletion events of the catalog.
DeletionTagLists ==
  << <<ETag(1)>>, <<ETag(2)>>, <<ETag(1), ETag(1)>>, <<ETag(1), ETag(2)>>,
     <<ETag(2), ETag(1)>>, <<TTag("music")>>, <<>>, <<<<"e">>, ETag(1)>>,
     <<ETag(0)>>, <<ETag(0), ETag(2)>> >>

PubkeyIndex(pk) == IF pk = "P" THEN 1 ELSE 2

DeletionEvent(pk, i) ==
  Event(100 + 10 * i + PubkeyIndex(pk), pk, DeletionKind, DeletionTagLists[i])

DeletionEvents == {DeletionEvent(pk, i) : pk \in Pubkeys, i \in 1..Len(DeletionTagLists)}

\* The same event as it arrives with a broken structure or signature.
Damaged(e) ==
  {[e EXCEPT !.shape = FALSE], [e EXCEPT !.sig = FALSE],
   [e EXCEPT !.shape = FALSE, !.sig = FALSE]}

\* The events a client may put in an EVENT frame.
WireEvents(r) ==
  IF r = "registry"
  THEN {EventA(r), EventU} \cup Damaged(EventA(r))
  ELSE {EventA(r), EventB(r), EventU} \cup DeletionEvents
         \cup Damaged(EventA(r)) \cup Damaged(DeletionEvent("P", 1))

\* What an events file may hold at first start: events of the catalog, and
\* an entry that carries id 1 under another publisher (the load does not validate).
FileEvents == {EventA("persist"), EventB("persist"), [EventA("persist") EXCEPT !.pubkey = "Q"]}

----------------------------------------------------------------------------
\* Persisted files.  st is "missing", "empty" (blank), "notarray" (JSON, not an
\* array), "corrupt" (not JSON) or "array"; data is the array's content.

EventsArrayFile(m) == [st |-> "array", data |-> m]
DeletionsArrayFile(d) == [st |-> "array", data |-> d]
NoFile == [st |-> "missing", data |-> <<>>]

FileStates == {"missing", "empty", "notarray", "corrupt"}

InitialEventsFiles ==
  {[st |-> s, data |-> <<>>] : s \in FileStates}
    \cup {EventsArrayFile(m) : m \in SeqsUpTo(FileEvents, MaxFileLen)}

InitialDeletionsFiles ==
  {[st |-> s, data |-> {}] : s \in FileStates}
    \cup {DeletionsArrayFile(d) : d \in SUBSET ContentIds}

\* eventsData.forEach: set every entry that is not in the deletions set.
RECURSIVE LoadEvents(_, _, _)
LoadEvents(data, m, del) ==
  IF data = <<>> THEN m
  ELSE LoadEvents(Tail(data),
                  IF Head(data).id \notin del THEN MapSet(m, Head(data)) ELSE m,
                  del)

\* The cleanup loop left out: the Map keeps what the events file gave it.
RemoveDeleted_Kept(m, del) == m

\* The loop that removes every tombstoned id from the Map.
RemoveDeleted(m, del) == SelectSeq(m, LAMBDA e : e.id \notin del)

\* The deletions file is never read.
LoadDeletionsPart_NotRead(m, ef, df) ==
  [events |-> m, deletions |-> {}, eventsFile |-> ef, deletionsFile |-> df]

\* The second half of loadPersistedData: the deletions file.
LoadDeletionsPart(m, ef, df) ==
  IF df.st = "array"
  THEN [events |-> RemoveDeleted(m, df.data), deletions |-> df.data,
        eventsFile |-> ef, deletionsFile |-> df]
  ELSE [events |-> m, deletions |-> {},
        eventsFile |-> ef, deletionsFile |-> DeletionsArrayFile({})]

\* loadPersistedData on a fresh process (events and deletions empty).
loadPersistedData(ef, df) ==
  CASE ef.st = "missing" -> LoadDeletionsPart(<<>>, EventsArrayFile(<<>>), df)
    [] ef.st = "empty"   -> [events |-> <<>>, deletions |-> {},
                             eventsFile |-> EventsArrayFile(<<>>), deletionsFile |-> df]
    [] ef.st = "notarray" -> [events |-> <<>>, deletions |-> {},
                              eventsFile |-> EventsArrayFile(<<>>), deletionsFile |-> df]
    [] ef.st = "corrupt" -> LoadDeletionsPart(<<>>, EventsArrayFile(<<>>), df)
    [] OTHER             -> LoadDeletionsPart(LoadEvents(ef.data, <<>>, {}), ef, df)

\* The files loadPersistedData copies to a backup name (fs.copyFileSync in the
\* two parse catch blocks); the deletions section is not reached after an
\* early return of the events section.
BackupsMade(ef, df) ==
  (IF ef.st = "corrupt" THEN {"events"} ELSE {})
    \cup (IF df.st = "corrupt" /\ ef.st \notin {"empty", "notarray"} THEN {"deletions"} ELSE {})

\* What the startup is recorded as in last: the two files as the load found
\* them and the backups it made.
Startup(ef, df) == [read |-> [e |-> ef, d |-> df], backups |-> BackupsMade(ef, df)]

saveEvents(m) == EventsArrayFile(m)

saveDeletions(d) == DeletionsArrayFile(d)

\* What a call of fs.writeFileSync leaves: the new content ("ok"), or, when it
\* throws, the file as it was ("unchanged") or truncated ("blank").  "none"
\* stands for a write that the handler did not reach.
WriteOutcomes == {"ok", "unchanged", "blank"}

BlankEventsFile == [st |-> "empty", data |-> <<>>]
BlankDeletionsFile == [st |-> "empty", data |-> {}]

WriteFile(old, new, outcome, blank) ==
  CASE outcome = "ok"    -> new
    [] outcome = "blank" -> blank
    [] OTHER             -> old

\* The outcomes of the two writes of one handler: e of saveEvents, d of saveDeletions.
IoChoices(saveE, saveD) ==
  {[e |-> x, d |-> y] : x \in (IF saveE THEN WriteOutcomes ELSE {"none"}),
                        y \in (IF saveD THEN WriteOutcomes ELSE {"none"})}

Failed(outcome) == outcome \in {"unchanged", "blank"}

Failures(io) == (IF Failed(io.e) THEN 1 ELSE 0) + (IF Failed(io.d) THEN 1 ELSE 0)

----------------------------------------------------------------------------
\* Outbound frames.

OK(id, accepted, reason, results) ==
  [type |-> "OK", id |-> id, accepted |-> accepted, reason |-> reason, results |-> results]
EVENT(sub, e) == [type |-> "EVENT", sub |-> sub, event |-> e]
EOSE(sub) == [type |-> "EOSE", sub |-> sub]

Send(c, f) == [to |-> c, frame |-> f]

Outcome(o, id) == [outcome |-> o, id |-> id]

----------------------------------------------------------------------------
\* Filters.  A filter is a record that has only the fields the client gave;
\* field t is the '#t' constraint.

Has(f, k) == k \in DOMAIN f

Filters(r) ==
  { [kinds |-> <<ContentKind(r)>>],
    [kinds |-> <<DeletionKind>>],
    [kinds |-> <<TextNoteKind>>],
    [kinds |-> <<>>],
    [authors |-> <<"P">>],
    [kinds |-> <<ContentKind(r)>>, authors |-> <<"Q">>],
    [kinds |-> <<ContentKind(r), DeletionKind>>, t |-> <<"music">>],
    [kinds |-> <<ContentKind(r)>>, ids |-> <<2>>] }

\* The filter arguments of a REQ frame: none, one or two filters.
FilterLists(r) ==
  {<<>>} \cup {<<f>> : f \in Filters(r)}
         \cup {<<[kinds |-> <<ContentKind(r)>>, authors |-> <<"Q">>], [authors |-> <<"P">>]>>,
               <<[kinds |-> <<TextNoteKind>>], [kinds |-> <<ContentKind(r)>>]>>}

\* The filter arguments of the REQ frames of the model, and whether the client
\* sent them as one array argument (wrapped) or as the frame's own arguments.
ReqArgs(r) ==
  IF r = "registry"
  THEN {[filters |-> fs, wrapped |-> TRUE] :
           fs \in {<<>>, <<[kinds |-> <<ContentKind(r)>>]>>, <<[kinds |-> <<DeletionKind>>]>>,
                   <<[kinds |-> <<ContentKind(r)>>, authors |-> <<"Q">>], [authors |-> <<"P">>]>>}}
         \cup {[filters |-> fs, wrapped |-> FALSE] :
                  fs \in {<<>>, <<[kinds |-> <<ContentKind(r)>>]>>,
                          <<[kinds |-> <<ContentKind(r)>>, authors |-> <<"Q">>],
                            [authors |-> <<"P">>]>>}}
  ELSE {[filters |-> fs, wrapped |-> FALSE] : fs \in FilterLists(r)}
         \cup {[filters |-> <<[kinds |-> <<ContentKind(r)>>]>>, wrapped |-> TRUE]}

SubIdsOf(r) == IF r = "registry" THEN SubIds ELSE {"s1"}

\* The connections that send frames: the persist and index relays keep nothing
\* per connection, one client shows all they do.
ConnsOf(r) == IF r = "registry" THEN Conns ELSE {1}

validKinds(r) == {ContentKind(r), DeletionKind}

TagValues(e, name) ==
  {e.tags[i][2] : i \in {j \in 1..Len(e.tags) : Len(e.tags[j]) >= 2 /\ e.tags[j][1] = name}}

\* The gate asks only whether the filter has kinds.
KindsGate_PresenceOnly(r, filter) == Has(filter, "kinds")

\* The kinds gate of the REQ branch: filter.kinds present and naming a valid kind.
KindsGate(r, filter) ==
  Has(filter, "kinds") /\ \E k \in Range(filter.kinds) : k \in validKinds(r)

\* The per-event test of the REQ scan (persist and index): authors, ids, '#t'.
ScanMatches(r, e, filter) ==
  /\ e.kind \in validKinds(r)
  /\ (Has(filter, "authors") /\ Len(filter.authors) > 0) => e.pubkey \in Range(filter.authors)
  /\ (Has(filter, "ids") /\ Len(filter.ids) > 0) => e.id \in Range(filter.ids)
  /\ (Has(filter, "t") /\ Len(filter.t) > 0) =>
        \E v \in Range(filter.t) : v \in TagValues(e, "t")

EventFrames(sub, m) == [i \in 1..Len(m) |-> EVENT(sub, m[i])]

----------------------------------------------------------------------------
\* The persist relay: the EVENT branch of the message handler.

\* The second element of the e tag is not looked at.
hasValidDeletionTag_NameOnly(e) ==
  \E i \in 1..Len(e.tags) : Len(e.tags[i]) >= 2 /\ e.tags[i][1] = "e"

hasValidDeletionTag(e) ==
  \E i \in 1..Len(e.tags) :
     Len(e.tags[i]) >= 2 /\ e.tags[i][1] = "e" /\ e.tags[i][2] # 0

\* Any publisher may delete.
IsPublisher_Anyone(e, stored) == TRUE

\* The test that the deletion request comes from the original publisher.
IsPublisher(e, stored) == e.pubkey = stored.pubkey

\* The four outcomes of one target of the deletion loop.  acc holds the Map,
\* the Set, deletionResults and anySuccessful.
MarkDeleted(acc, id) ==
  [events |-> MapDelete(acc.events, id),
   deletions |-> acc.deletions \cup {id},
   results |-> Append(acc.results, Outcome("deleted", id)),
   anySuccessful |-> TRUE]

MarkUnauthorized(acc, id) == [acc EXCEPT !.results = Append(@, Outcome("unauthorized", id))]

\* An already deleted target that does not count as a success.
MarkAlreadyDeleted_NoSuccess(acc, id) ==
  [acc EXCEPT !.results = Append(@, Outcome("already deleted", id))]

MarkAlreadyDeleted(acc, id) ==
  [acc EXCEPT !.results = Append(@, Outcome("already deleted", id)), !.anySuccessful = TRUE]

\* A target that is not stored is tombstoned all the same.
MarkNotFound_Tombstoned(acc, id) ==
  [acc EXCEPT !.results = Append(@, Outcome("not found", id)), !.deletions = @ \cup {id}]

MarkNotFound(acc, id) == [acc EXCEPT !.results = Append(@, Outcome("not found", id))]

\* The deletion loop over the tags from position i on.
RECURSIVE DeletionLoop(_, _, _)
DeletionLoop(e, i, acc) ==
  IF i > Len(e.tags) THEN acc
  ELSE LET tag == e.tags[i] IN
    IF ~(Len(tag) >= 2 /\ tag[1] = "e") THEN DeletionLoop(e, i + 1, acc)
    ELSE LET id == tag[2] IN
      IF MapHas(acc.events, id)
      THEN IF IsPublisher(e, MapGet(acc.events, id))
           THEN DeletionLoop(e, i + 1, MarkDeleted(acc, id))
           ELSE DeletionLoop(e, i + 1, MarkUnauthorized(acc, id))
      ELSE IF id \in acc.deletions
           THEN DeletionLoop(e, i + 1, MarkAlreadyDeleted(acc, id))
           ELSE DeletionLoop(e, i + 1, MarkNotFound(acc, id))

Unchanged(m, d, reply) ==
  [events |-> m, deletions |-> d, reply |-> reply, saveE |-> FALSE, saveD |-> FALSE]

\* The signature check placed before the structure check.
Validation_SignatureFirst(e) ==
  IF ~e.sig THEN "invalid: signature verification failed"
  ELSE IF ~e.shape THEN "invalid: event structure is invalid"
  ELSE ""

\* The two checks that open the EVENT branch: the reason of the first that
\* fails, "" when the event passes both.
Validation(e) ==
  IF ~e.shape THEN "invalid: event structure is invalid"
  ELSE IF ~e.sig THEN "invalid: signature verification failed"
  ELSE ""

\* The tombstone test left out of the music branch.
PreviouslyDeleted_Never(d, id) == FALSE

\* deletions.has(event.id) on a music event.
PreviouslyDeleted(d, id) == id \in d

\* The whole EVENT branch: the new Map and Set, the reply, and which files are saved.
PersistEvent(m, d, e) ==
  IF Validation(e) # ""
  THEN Unchanged(m, d, OK(e.id, FALSE, Validation(e), <<>>))
  ELSE IF e.kind = MusicKind
  THEN IF PreviouslyDeleted(d, e.id)
       THEN Unchanged(m, d, OK(e.id, FALSE, "invalid: event was previously deleted", <<>>))
       ELSE [events |-> MapSet(m, e), deletions |-> d, reply |-> OK(e.id, TRUE, "", <<>>),
             saveE |-> TRUE, saveD |-> FALSE]
  ELSE IF e.kind = DeletionKind
  THEN IF ~hasValidDeletionTag(e)
       THEN Unchanged(m, d, OK(e.id, FALSE,
                                "invalid: deletion event must have a valid e tag", <<>>))
       ELSE LET r == DeletionLoop(e, 1, [events |-> m, deletions |-> d,
                                         results |-> <<>>, anySuccessful |-> FALSE])
            IN IF r.anySuccessful
               THEN [events |-> r.events, deletions |-> r.deletions,
                     reply |-> OK(e.id, TRUE, "results", r.results),
                     saveE |-> TRUE, saveD |-> TRUE]
               ELSE Unchanged(r.events, r.deletions, OK(e.id, FALSE, "invalid", r.results))
  ELSE Unchanged(m, d, OK(e.id, FALSE,
                          "invalid: only kind 23 and 5 events are accepted", <<>>))

\* The REQ branch: the frames sent to the requester.  filters holds the frame's
\* filter arguments ["REQ", sub, f1, f2]; wrapped says that they came as one
\* array argument ["REQ", sub, [f1, f2]].  Only the first argument is read: an
\* array has no kinds, and a frame without a filter throws inside the try
\* block, which sends nothing.
PersistReq(m, d, sub, filters, wrapped) ==
  IF wrapped THEN <<EOSE(sub)>>
  ELSE IF filters = <<>> THEN <<>>
  ELSE LET filter == filters[1] IN
    IF ~KindsGate("persist", filter) THEN <<EOSE(sub)>>
    ELSE EventFrames(sub, SelectSeq(m, LAMBDA e :
                             e.id \notin d /\ ScanMatches("persist", e, filter)))
           \o <<EOSE(sub)>>

\* The write error is thrown on to the handler's catch block.
ReplyAfterSave_Thrown(reply, io) ==
  IF Failed(io.e) \/ Failed(io.d)
  THEN OK(reply.id, FALSE, "error: failed to process event", <<>>)
  ELSE reply

\* saveEvents and saveDeletions catch and log a write error themselves, so the
\* handler goes on to send the reply it had prepared.
ReplyAfterSave(reply, io) == reply

ToConn(c, frames) == [i \in 1..Len(frames) |-> Send(c, frames[i])]

PersistOnEvent(c, e) ==
  /\ relay = "persist" /\ running
  /\ \E r \in {PersistEvent(events, deletions, e)} :
       \E io \in IoChoices(r.saveE, r.saveD) :
          /\ writeFailures + Failures(io) <= MaxWriteFailures
          /\ writeFailures' = writeFailures + Failures(io)
          /\ events' = r.events
          /\ deletions' = r.deletions
          /\ eventsFile' = IF r.saveE
                           THEN WriteFile(eventsFile, saveEvents(r.events), io.e, BlankEventsFile)
                           ELSE eventsFile
          /\ deletionsFile' = IF r.saveD
                              THEN WriteFile(deletionsFile, saveDeletions(r.deletions), io.d,
                                             BlankDeletionsFile)
                              ELSE deletionsFile
          /\ out' = <<Send(c, ReplyAfterSave(r.reply, io))>>
          /\ last' = [type |-> "EVENT", conn |-> c, event |-> e, io |-> io]
  /\ UNCHANGED <<pay, loop, shutdown, relay, subscriptions, restarts, running>>

PersistOnReq(c, sub, filters, wrapped) ==
  /\ relay = "persist" /\ running
  /\ out' = ToConn(c, PersistReq(events, deletions, sub, filters, wrapped))
  /\ last' = [type |-> "REQ", conn |-> c, sub |-> sub, filters |-> filters, wrapped |-> wrapped]
  /\ UNCHANGED <<pay, loop, shutdown, relay, events, deletions, eventsFile, deletionsFile, subscriptions,
                 restarts, running, writeFailures>>

\* A frame of any other type (CLOSE included) takes neither branch.
PersistOnOther(c, sub) ==
  /\ relay = "persist" /\ running
  /\ out' = <<>>
  /\ last' = [type |-> "CLOSE", conn |-> c, sub |-> sub]
  /\ UNCHANGED <<pay, loop, shutdown, relay, events, deletions, eventsFile, deletionsFile, subscriptions,
                 restarts, running, writeFailures>>

\* A frame that is not JSON ("notjson": JSON.parse throws and the handler
\* returns) or an array whose first element is no known type ("unknown": no
\* branch is taken), in the persist and index relays.
OnDecodeError(c, what) ==
  /\ relay \in {"persist", "index"} /\ running
  /\ c \in ConnsOf(relay)
  /\ out' = <<>>
  /\ last' = [type |-> "OTHER", conn |-> c, what |-> what, escaped |-> FALSE]
  /\ UNCHANGED <<pay, loop, shutdown, relay, events, deletions, eventsFile, deletionsFile, subscriptions,
                 restarts, running, writeFailures>>

\* A frame on which the async message handler of the persist and index relays
\* throws outside its try blocks: JSON that is not iterable - null, a number,
\* an object - at the destructuring ("nonarray"), and an EVENT frame whose
\* event is missing or null, on which event.id throws in the try block and
\* again in the catch block ("noevent").  The handler's promise is rejected
\* with nothing to handle it; what the runtime does then depends on its
\* version and flags: it ends the process (dies) or only warns.
OnEscape(c, what, dies) ==
  /\ relay \in {"persist", "index"} /\ running
  /\ c \in ConnsOf(relay)
  /\ out' = <<>>
  /\ running' = ~dies
  /\ last' = [type |-> IF what = "noevent" THEN "NOEVENT" ELSE "OTHER",
              conn |-> c, what |-> what, escaped |-> TRUE]
  /\ UNCHANGED <<pay, loop, shutdown, relay, events, deletions, eventsFile, deletionsFile, subscriptions,
                 restarts, writeFailures>>

\* ws.on('close') of the persist relay: it logs, and keeps nothing per connection.
PersistOnClose(c) ==
  /\ relay = "persist" /\ running
  /\ out' = <<>>
  /\ last' = [type |-> "close", conn |-> c]
  /\ UNCHANGED <<pay, loop, shutdown, relay, events, deletions, eventsFile, deletionsFile, subscriptions,
                 restarts, running, writeFailures>>

\* saveEvents(); saveDeletions(): the two files after the calls.
SaveBoth(io) ==
  /\ writeFailures + Failures(io) <= MaxWriteFailures
  /\ writeFailures' = writeFailures + Failures(io)
  /\ eventsFile' = WriteFile(eventsFile, saveEvents(events), io.e, BlankEventsFile)
  /\ deletionsFile' = WriteFile(deletionsFile, saveDeletions(deletions), io.d, BlankDeletionsFile)

\* The handler leaves the shutdown to the exit: nothing is saved.
OnSigint_NoFlush ==
  /\ relay = "persist" /\ running
  /\ restarts < MaxRestarts
  /\ shutdown' = TRUE
  /\ out' = <<>>
  /\ last' = [type |-> "sigint", io |-> [e |-> "ok", d |-> "ok"]]
  /\ UNCHANGED <<pay, loop, relay, events, deletions, eventsFile, deletionsFile, subscriptions,
                 restarts, running, writeFailures>>

\* process.on('SIGINT'): both files are saved, then wss.close is called; the
\* process exits in its callback, and until then the connections that are
\* open still deliver frames.
OnSigint ==
  /\ relay = "persist" /\ running
  /\ restarts < MaxRestarts
  /\ \E io \in IoChoices(TRUE, TRUE) :
       /\ SaveBoth(io)
       /\ last' = [type |-> "sigint", io |-> io]
  /\ shutdown' = TRUE
  /\ out' = <<>>
  /\ UNCHANGED <<pay, loop, relay, events, deletions, subscriptions, restarts, running>>

\* The callback of wss.close: process.exit(0).
OnExit ==
  /\ relay = "persist" /\ running /\ shutdown
  /\ running' = FALSE
  /\ shutdown' = FALSE
  /\ out' = <<>>
  /\ last' = [type |-> "exit"]
  /\ UNCHANGED <<pay, loop, relay, events, deletions, eventsFile, deletionsFile, subscriptions,
                 restarts, writeFailures>>

\* The setInterval callback: saveEvents(); saveDeletions().
PeriodicSave ==
  /\ relay = "persist" /\ running
  /\ \E io \in IoChoices(TRUE, TRUE) :
       /\ SaveBoth(io)
       /\ last' = [type |-> "save", io |-> io]
  /\ out' = <<>>
  /\ UNCHANGED <<pay, loop, shutdown, relay, events, deletions, subscriptions, restarts, running>>

\* The process ends and is started again from its files.  With sigint the
\* SIGINT handler has called saveEvents and saveDeletions before the exit;
\* without, the process died between two frames or was dead already.  While the
\* process is down events and deletions keep what it held last.
Restart(sigint) ==
  /\ relay = "persist"
  /\ sigint => running
  /\ restarts < MaxRestarts
  /\ \E io \in IoChoices(sigint, sigint) :
       /\ writeFailures + Failures(io) <= MaxWriteFailures
       /\ writeFailures' = writeFailures + Failures(io)
       /\ \E ef \in {IF sigint
                      THEN WriteFile(eventsFile, saveEvents(events), io.e, BlankEventsFile)
                      ELSE eventsFile},
             df \in {IF sigint
                      THEN WriteFile(deletionsFile, saveDeletions(deletions), io.d,
                                     BlankDeletionsFile)
                      ELSE deletionsFile} :
            /\ last' = [type |-> "restart", sigint |-> sigint, io |-> io,
                        read |-> Startup(ef, df).read, backups |-> Startup(ef, df).backups]
            /\ \E st \in {loadPersistedData(ef, df)} :
                 /\ events' = st.events
                 /\ deletions' = st.deletions
                 /\ eventsFile' = st.eventsFile
                 /\ deletionsFile' = st.deletionsFile
  /\ restarts' = restarts + 1
  /\ running' = TRUE
  /\ shutdown' = FALSE
  /\ out' = <<>>
  /\ UNCHANGED <<pay, loop, relay, subscriptions>>

----------------------------------------------------------------------------
\* The index relay (relay/index.js): no tombstones, no files.

\* event.tags.find(t => t[0] === 'e')?.[1]; 0 when there is none.
FirstETarget(e) ==
  LET es == SelectSeq(e.tags, LAMBDA t : Len(t) >= 1 /\ t[1] = "e")
  IN IF es = <<>> \/ Len(es[1]) < 2 THEN 0 ELSE es[1][2]

IndexEvent(m, e) ==
  IF Validation(e) # ""
  THEN [events |-> m, reply |-> OK(e.id, FALSE, Validation(e), <<>>)]
  ELSE IF e.kind = MusicKind4100
  THEN [events |-> MapSet(m, e), reply |-> OK(e.id, TRUE, "", <<>>)]
  ELSE IF e.kind = DeletionKind
  THEN LET id == FirstETarget(e) IN
       IF MapHas(m, id) /\ IsPublisher(e, MapGet(m, id))
       THEN [events |-> MapDelete(m, id), reply |-> OK(e.id, TRUE, "", <<>>)]
       ELSE [events |-> m,
             reply |-> OK(e.id, FALSE, "invalid: unauthorized deletion or event not found", <<>>)]
  ELSE [events |-> m,
        reply |-> OK(e.id, FALSE, "invalid: only kind 4100 and 5 events are accepted", <<>>)]

IndexReq(m, sub, filters, wrapped) ==
  IF wrapped THEN <<EOSE(sub)>>
  ELSE IF filters = <<>> THEN <<>>
  ELSE LET filter == filters[1] IN
    IF ~KindsGate("index", filter) THEN <<EOSE(sub)>>
    ELSE EventFrames(sub, SelectSeq(m, LAMBDA e : ScanMatches("index", e, filter)))
           \o <<EOSE(sub)>>

IndexOnEvent(c, e) ==
  /\ relay = "index" /\ running
  /\ \E r \in {IndexEvent(events, e)} :
       /\ events' = r.events
       /\ out' = <<Send(c, r.reply)>>
  /\ last' = [type |-> "EVENT", conn |-> c, event |-> e]
  /\ UNCHANGED <<pay, loop, shutdown, relay, deletions, eventsFile, deletionsFile, subscriptions,
                 restarts, running, writeFailures>>

IndexOnReq(c, sub, filters, wrapped) ==
  /\ relay = "index" /\ running
  /\ out' = ToConn(c, IndexReq(events, sub, filters, wrapped))
  /\ last' = [type |-> "REQ", conn |-> c, sub |-> sub, filters |-> filters, wrapped |-> wrapped]
  /\ UNCHANGED <<pay, loop, shutdown, relay, events, deletions, eventsFile, deletionsFile, subscriptions,
                 restarts, running, writeFailures>>

----------------------------------------------------------------------------
\* The registry relay: subscriptions is the Map subId -> Set of ws, kept as
\* its entries [sub, clients] in insertion order, clients in insertion order.

SubsHas(subs, sub) == \E i \in 1..Len(subs) : subs[i].sub = sub

\* subscriptions.get(sub) exists and has ws.
SubsHolds(subs, sub, c) ==
  \E i \in 1..Len(subs) : subs[i].sub = sub /\ c \in Range(subs[i].clients)

SubsAdd(subs, sub, c) ==
  IF SubsHas(subs, sub)
  THEN [i \in 1..Len(subs) |->
          IF subs[i].sub = sub /\ c \notin Range(subs[i].clients)
          THEN [subs[i] EXCEPT !.clients = Append(@, c)]
          ELSE subs[i]]
  ELSE Append(subs, [sub |-> sub, clients |-> <<c>>])

\* The whole entry of sub is deleted, whoever else is in it.
SubsRemove_WholeEntry(subs, sub, c) == SelectSeq(subs, LAMBDA s : s.sub # sub)

\* subs.delete(ws) on the entry of sub, and the entry itself when it is left empty.
SubsRemove(subs, sub, c) ==
  SelectSeq([i \in 1..Len(subs) |->
               IF subs[i].sub = sub
               THEN [subs[i] EXCEPT !.clients = SelectSeq(@, LAMBDA x : x # c)]
               ELSE subs[i]],
            LAMBDA s : s.clients # <<>>)

\* The loop stops at the first entry that holds the connection.
SubsRemoveAll_FirstEntry(subs, c) ==
  IF \E i \in 1..Len(subs) : c \in Range(subs[i].clients)
  THEN SubsRemove(subs, subs[CHOOSE i \in 1..Len(subs) :
                                /\ c \in Range(subs[i].clients)
                                /\ \A j \in 1..(i - 1) : c \notin Range(subs[j].clients)].sub, c)
  ELSE subs

\* The close handler: the same for every entry.
SubsRemoveAll(subs, c) ==
  SelectSeq([i \in 1..Len(subs) |->
               [subs[i] EXCEPT !.clients = SelectSeq(@, LAMBDA x : x # c)]],
            LAMBDA s : s.clients # <<>>)

\* The frames of the notification loop of handleEvent: every client of every entry.
RECURSIVE Notify(_, _)
Notify(subs, e) ==
  IF subs = <<>> THEN <<>>
  ELSE [i \in 1..Len(subs[1].clients) |-> Send(subs[1].clients[i], EVENT(subs[1].sub, e))]
         \o Notify(Tail(subs), e)

matchFilter(e, filter) ==
  /\ Has(filter, "kinds") => e.kind \in Range(filter.kinds)
  /\ Has(filter, "authors") => e.pubkey \in Range(filter.authors)
  /\ Has(filter, "t") => \E v \in Range(filter.t) : v \in TagValues(e, "t")

matchFilters(e, filters) == \E i \in 1..Len(filters) : matchFilter(e, filters[i])

\* !validateEvent(event) || !verifySignature(event)
Rejected(e) == ~e.shape \/ ~e.sig

handleEvent(c, e) ==
  /\ relay = "registry" /\ running
  /\ IF Rejected(e)
     THEN /\ out' = <<Send(c, OK(e.id, FALSE, "invalid: invalid signature", <<>>))>>
          /\ events' = events
     ELSE /\ events' = MapSet(events, e)
          /\ out' = <<Send(c, OK(e.id, TRUE, "", <<>>))>> \o Notify(subscriptions, e)
  /\ last' = [type |-> "EVENT", conn |-> c, event |-> e]
  /\ UNCHANGED <<pay, loop, shutdown, relay, deletions, eventsFile, deletionsFile, subscriptions,
                 restarts, running, writeFailures>>

\* In the registry relay last also records, as known, whether the registry held
\* the frame's (connection, subId) - for a teardown, any entry of the
\* connection - when the frame arrived.

\* filters is data[1] of the frame: an array of filters only when the client
\* wrapped them; otherwise it is the first filter object (or undefined), on
\* which filters.some throws at the first stored event, and the handler's
\* catch ends the frame without EOSE.
handleSubscription(c, sub, filters, wrapped) ==
  /\ relay = "registry" /\ running
  /\ subscriptions' = SubsAdd(subscriptions, sub, c)
  /\ out' = IF wrapped
            THEN ToConn(c, EventFrames(sub, SelectSeq(events, LAMBDA e : matchFilters(e, filters)))
                             \o <<EOSE(sub)>>)
            ELSE IF events = <<>> THEN <<Send(c, EOSE(sub))>> ELSE <<>>
  /\ last' = [type |-> "REQ", conn |-> c, sub |-> sub, filters |-> filters, wrapped |-> wrapped,
              known |-> SubsHolds(subscriptions, sub, c)]
  /\ UNCHANGED <<pay, loop, shutdown, relay, events, deletions, eventsFile, deletionsFile,
                 restarts, running, writeFailures>>

handleClose(c, sub) ==
  /\ relay = "registry" /\ running
  /\ subscriptions' = SubsRemove(subscriptions, sub, c)
  /\ out' = <<>>
  /\ last' = [type |-> "CLOSE", conn |-> c, sub |-> sub,
              known |-> SubsHolds(subscriptions, sub, c)]
  /\ UNCHANGED <<pay, loop, shutdown, relay, events, deletions, eventsFile, deletionsFile,
                 restarts, running, writeFailures>>

\* The frames the message handler of the registry relay drops: its one try
\* block covers JSON.parse, the destructuring and the handlers, and its catch
\* and its default branch only log.  An EVENT frame without event throws at
\* event.id after the checks have failed.
onMessageDropped(c, what) ==
  /\ relay = "registry" /\ running
  /\ out' = <<>>
  /\ last' = [type |-> IF what = "noevent" THEN "NOEVENT" ELSE "OTHER",
              conn |-> c, what |-> what, escaped |-> FALSE]
  /\ UNCHANGED <<pay, loop, shutdown, relay, events, deletions, eventsFile, deletionsFile, subscriptions,
                 restarts, running, writeFailures>>

\* The teardown clears the whole registry.
onClose_ClearsRegistry(c) ==
  /\ relay = "registry" /\ running
  /\ subscriptions' = <<>>
  /\ out' = <<>>
  /\ last' = [type |-> "close", conn |-> c,
              known |-> \E sub \in SubIds : SubsHolds(subscriptions, sub, c)]
  /\ UNCHANGED <<pay, loop, shutdown, relay, events, deletions, eventsFile, deletionsFile,
                 restarts, running, writeFailures>>

\* ws.on('close'): the transport of connection c is torn down.
onClose(c) ==
  /\ relay = "registry" /\ running
  /\ subscriptions' = SubsRemoveAll(subscriptions, c)
  /\ out' = <<>>
  /\ last' = [type |-> "close", conn |-> c,
              known |-> \E sub \in SubIds : SubsHolds(subscriptions, sub, c)]
  /\ UNCHANGED <<pay, loop, shutdown, relay, events, deletions, eventsFile, deletionsFile,
                 restarts, running, writeFailures>>

----------------------------------------------------------------------------
\* The event loop of the persist relay at the grain of the phases of its
\* message handler.  inbox holds, per connection, the frames that have arrived
\* and wait for their 'message' event, numbered in arrival order; onStack is
\* the handler invocation that runs (at most one: the loop has one call
\* stack); suspended holds the invocations that wait at an await; done lists,
\* per connection, the numbers of the frames handled to the end.
LoopIdle ==
  [inbox |-> [c \in Conns |-> <<>>], arrived |-> [c \in Conns |-> 0],
   onStack |-> <<>>, suspended |-> {}, done |-> [c \in Conns |-> <<>>]]

\* No web client is part of the relay behaviours.
NoPayment == [pc |-> "off"]

\* The state after construction: the persist relay has run loadPersistedData
\* on whatever the two files held; the other relays start empty.

Init ==
  /\ relay \in Relays
  /\ \E ef \in InitialEventsFiles, df \in InitialDeletionsFiles :
       LET st == IF relay = "persist" THEN loadPersistedData(ef, df)
                 ELSE [events |-> <<>>, deletions |-> {}, eventsFile |-> NoFile,
                       deletionsFile |-> [st |-> "missing", data |-> {}]]
       IN /\ events = st.events
          /\ deletions = st.deletions
          /\ eventsFile = st.eventsFile
          /\ deletionsFile = st.deletionsFile
          /\ last = IF relay = "persist"
                    THEN [type |-> "start", read |-> Startup(ef, df).read,
                          backups |-> Startup(ef, df).backups]
                    ELSE [type |-> "start"]
  /\ subscriptions = <<>>
  /\ out = <<>>
  /\ restarts = 0
  /\ running = TRUE
  /\ writeFailures = 0
  /\ shutdown = FALSE
  /\ loop = LoopIdle
  /\ pay = NoPayment

Next ==
  \/ \E c \in ConnsOf("persist"), e \in WireEvents("persist") : PersistOnEvent(c, e)
  \/ \E c \in ConnsOf("persist"), sub \in SubIdsOf("persist"), a \in ReqArgs("persist") :
       PersistOnReq(c, sub, a.filters, a.wrapped)
  \/ \E c \in ConnsOf("persist"), sub \in SubIdsOf("persist") : PersistOnOther(c, sub)
  \/ \E c \in ConnsOf("persist") : PersistOnClose(c)
  \/ \E c \in Conns, what \in {"notjson", "unknown"} : OnDecodeError(c, what)
  \/ \E c \in Conns, what \in {"nonarray", "noevent"}, dies \in BOOLEAN :
       OnEscape(c, what, dies)
  \/ \E sigint \in BOOLEAN : Restart(sigint)
  \/ OnSigint
  \/ OnExit
  \/ PeriodicSave
  \/ \E c \in ConnsOf("index"), e \in WireEvents("index") : IndexOnEvent(c, e)
  \/ \E c \in ConnsOf("index"), sub \in SubIdsOf("index"), a \in ReqArgs("index") :
       IndexOnReq(c, sub, a.filters, a.wrapped)
  \/ \E c \in Conns, e \in WireEvents("registry") : handleEvent(c, e)
  \/ \E c \in Conns, sub \in SubIdsOf("registry"), a \in ReqArgs("registry") :
       handleSubscription(c, sub, a.filters, a.wrapped)
  \/ \E c \in Conns, sub \in SubIdsOf("registry") : handleClose(c, sub)
  \/ \E c \in Conns : onClose(c)
  \/ \E c \in Conns, what \in {"notjson", "unknown", "nonarray", "noevent"} :
       onMessageDropped(c, what)

Spec == Init /\ [][Next]_vars

----------------------------------------------------------------------------
\* The message handler of the persist relay in phases: "parse" (JSON.parse and
\* the destructuring), "apply" (the checks and the change of Map and Set, or
\* the gate and the scan), "save" (saveEvents, saveDeletions), "send" (ws.send
\* of the frames).  The handler is an async function: it would leave the call
\* stack at an await and let other handlers run before it goes on.

\* saveEvents and saveDeletions are awaited.
AwaitPoints_Save == {"save"}

\* The phases after which the handler awaits: its body has no await.
AwaitPoints == {}

LoopFrames ==
  {[type |-> "EVENT", event |-> EventA("persist")],
   [type |-> "EVENT", event |-> DeletionEvent("P", 1)],
   [type |-> "REQ", sub |-> "s1", filters |-> <<[kinds |-> <<MusicKind>>]>>]}

Pending == [frames |-> <<>>, saveE |-> FALSE, saveD |-> FALSE, events |-> <<>>, deletions |-> {}]

\* The invocations of connection c the loop can put on the empty stack: a
\* suspended one, or the handler of the oldest waiting frame of the connection.
Jobs(c) ==
  {inv \in loop.suspended : inv.conn = c}
    \cup (IF loop.inbox[c] = <<>> THEN {}
          ELSE {[conn |-> c, n |-> Head(loop.inbox[c]).n, frame |-> Head(loop.inbox[c]).frame,
                 pc |-> "parse", result |-> Pending]})

\* The invocation after a phase: on the stack still, or suspended at an await.
AfterPhase(inv) ==
  IF inv.pc \in {"apply", "save", "send"} /\ \E p \in AwaitPoints : 
        (p = "parse" /\ inv.pc = "apply") \/ (p = "apply" /\ inv.pc = "save")
           \/ (p = "save" /\ inv.pc = "send")
  THEN [loop EXCEPT !.onStack = <<>>, !.suspended = @ \cup {inv}]
  ELSE [loop EXCEPT !.onStack = <<inv>>]

\* A frame arrives on connection c.
Arrive(c, f) ==
  /\ loop.arrived[1] + loop.arrived[2] < MaxLoopFrames
  /\ loop' = [loop EXCEPT !.arrived[c] = @ + 1,
                          !.inbox[c] = Append(@, [n |-> loop.arrived[c] + 1, frame |-> f])]
  /\ UNCHANGED <<pay, relay, events, deletions, eventsFile, deletionsFile, subscriptions, out, last,
                 restarts, running, writeFailures, shutdown>>

\* The call stack is empty and the loop runs its next job.
Schedule(c) ==
  /\ loop.onStack = <<>>
  /\ \E inv \in Jobs(c) :
       loop' = [loop EXCEPT !.onStack = <<inv>>,
                           !.suspended = @ \ {inv},
                           !.inbox[c] = IF inv \in loop.suspended THEN @ ELSE Tail(@)]
  /\ UNCHANGED <<pay, relay, events, deletions, eventsFile, deletionsFile, subscriptions, out, last,
                 restarts, running, writeFailures, shutdown>>

HandlerParse ==
  /\ loop.onStack # <<>> /\ loop.onStack[1].pc = "parse"
  /\ loop' = AfterPhase([loop.onStack[1] EXCEPT !.pc = "apply"])
  /\ UNCHANGED <<pay, relay, events, deletions, eventsFile, deletionsFile, subscriptions, out, last,
                 restarts, running, writeFailures, shutdown>>

HandlerApply ==
  /\ loop.onStack # <<>> /\ loop.onStack[1].pc = "apply"
  /\ \E inv \in {loop.onStack[1]} :
       IF inv.frame.type = "EVENT"
       THEN \E r \in {PersistEvent(events, deletions, inv.frame.event)} :
              /\ events' = r.events
              /\ deletions' = r.deletions
              /\ loop' = AfterPhase([inv EXCEPT !.pc = "save",
                                                !.result = [frames |-> <<r.reply>>,
                                                            saveE |-> r.saveE, saveD |-> r.saveD,
                                                            events |-> r.events,
                                                            deletions |-> r.deletions]])
       ELSE /\ UNCHANGED <<events, deletions>>
            /\ loop' = AfterPhase([inv EXCEPT !.pc = "save",
                                              !.result = [frames |-> PersistReq(events, deletions,
                                                                       inv.frame.sub,
                                                                       inv.frame.filters, FALSE),
                                                          saveE |-> FALSE, saveD |-> FALSE,
                                                          events |-> events,
                                                          deletions |-> deletions]])
  /\ UNCHANGED <<pay, relay, eventsFile, deletionsFile, subscriptions, out, last,
                 restarts, running, writeFailures, shutdown>>

HandlerSave ==
  /\ loop.onStack # <<>> /\ loop.onStack[1].pc = "save"
  /\ eventsFile' = IF loop.onStack[1].result.saveE THEN saveEvents(events) ELSE eventsFile
  /\ deletionsFile' = IF loop.onStack[1].result.saveD THEN saveDeletions(deletions)
                      ELSE deletionsFile
  /\ loop' = AfterPhase([loop.onStack[1] EXCEPT !.pc = "send"])
  /\ UNCHANGED <<pay, relay, events, deletions, subscriptions, out, last,
                 restarts, running, writeFailures, shutdown>>

HandlerSend ==
  /\ loop.onStack # <<>> /\ loop.onStack[1].pc = "send"
  /\ \E inv \in {loop.onStack[1]} :
       /\ out' = ToConn(inv.conn, inv.result.frames)
       /\ last' = [type |-> inv.frame.type, conn |-> inv.conn, n |-> inv.n]
       /\ loop' = [loop EXCEPT !.onStack = <<>>, !.done[inv.conn] = Append(@, inv.n)]
  /\ UNCHANGED <<pay, relay, events, deletions, eventsFile, deletionsFile, subscriptions,
                 restarts, running, writeFailures, shutdown>>

\* The persist relay started without files, no frame has arrived.
InitLoop ==
  /\ relay = "persist"
  /\ \E st \in {loadPersistedData(NoFile, [st |-> "missing", data |-> {}])} :
       /\ events = st.events
       /\ deletions = st.deletions
       /\ eventsFile = st.eventsFile
       /\ deletionsFile = st.deletionsFile
  /\ subscriptions = <<>>
  /\ out = <<>>
  /\ last = [type |-> "start"]
  /\ restarts = 0
  /\ running = TRUE
  /\ writeFailures = 0
  /\ shutdown = FALSE
  /\ loop = LoopIdle
  /\ pay = NoPayment

NextLoop ==
  \/ \E c \in Conns, f \in LoopFrames : Arrive(c, f)
  \/ \E c \in Conns : Schedule(c)
  \/ HandlerParse
  \/ HandlerApply
  \/ HandlerSave
  \/ HandlerSend

SpecLoop == InitLoop /\ [][NextLoop]_vars

----------------------------------------------------------------------------
\* The payment manager of the web client (use-payment-manager.ts) and the
\* payment part of its store (audio-store.ts).  pay.store is the store's
\* payment object, pay.payment the payment object of the render that made the
\* processPayment callback, pay.prepared the amounts of the payments the round
\* has prepared.  Amounts and percentages are such that the floating point
\* products and quotients of the code are exact: percentages are multiples of
\* 25, so Math.ceil is the integer ceiling.

PAYMENT_INTERVAL == 10

Ceil(a, b) == (a + b - 1) \div b

RECURSIVE SumSeq(_)
SumSeq(q) == IF q = <<>> THEN 0 ELSE Head(q) + SumSeq(Tail(q))

Percentages == {25, 50, 75}

SplitLists == UNION {[1..n -> Percentages] : n \in 0..MaxSplits}

Tracks ==
  {[price |-> p, duration |-> 30, freeSeconds |-> 10, splits |-> sp] :
     p \in {0, 3, 8}, sp \in SplitLists}

initialPaymentState == [totalPaid |-> 0, lastPaymentStatus |-> "none"]

\* The cost of one interval, 0 in the free period or for a free track.
calculatePaymentAmount(track, currentTime) ==
  IF track.duration - track.freeSeconds <= 0 THEN 0
  ELSE IF currentTime <= track.freeSeconds THEN 0
  ELSE Ceil(track.price, Ceil(track.duration - track.freeSeconds, PAYMENT_INTERVAL))

\* set({payment: {...state.payment, ...updates}})
updatePaymentState(payment, updates) ==
  [f \in DOMAIN payment |-> IF f \in DOMAIN updates THEN updates[f] ELSE payment[f]]

\* The amount of the share of percentage pct of the interval amount.
ShareAmount(pct, totalAmount) == Ceil(pct * totalAmount, 100)

\* The preparation of one payment: totalPaid is set from the payment object of
\* the callback's render, and the amount joins the payments of the round.
PreparePayment(st, payment, amount) ==
  [store |-> updatePaymentState(st.store, [totalPaid |-> payment.totalPaid + amount]),
   prepared |-> Append(st.prepared, amount)]

\* The primary payment, prepared when the splits leave it a share.
PreparePrimary(st, payment, splits, totalAmount) ==
  IF 100 - SumSeq(splits) > 0
  THEN PreparePayment(st, payment, ShareAmount(100 - SumSeq(splits), totalAmount))
  ELSE st

\* for (const split of track.splits), from position i on.
RECURSIVE PrepareSplits(_, _, _, _, _)
PrepareSplits(st, payment, splits, totalAmount, i) ==
  IF i > Len(splits) THEN st
  ELSE PrepareSplits(PreparePayment(st, payment, ShareAmount(splits[i], totalAmount)),
                     payment, splits, totalAmount, i + 1)

\* processPayment is called and runs to its first await: the status is set to
\* pending and the interval amount computed; without an amount the round ends;
\* with splits every payment is prepared and the round awaits them all;
\* without splits it awaits the invoice.
StartPayment ==
  /\ pay.pc = "idle" /\ pay.rounds < MaxRounds
  /\ \E totalAmount \in {calculatePaymentAmount(pay.track, pay.currentTime)} :
     \E pending \in {updatePaymentState(pay.store, [lastPaymentStatus |-> "pending"])} :
       IF totalAmount <= 0
       THEN pay' = [pay EXCEPT !.payment = pay.store,
                               !.store = updatePaymentState(pending,
                                                            [lastPaymentStatus |-> "success"]),
                               !.totalAmount = totalAmount, !.prepared = <<>>,
                               !.rounds = @ + 1]
       ELSE IF Len(pay.track.splits) > 0
       THEN \E st \in {PrepareSplits(PreparePrimary([store |-> pending, prepared |-> <<>>],
                                                     pay.store, pay.track.splits, totalAmount),
                                      pay.store, pay.track.splits, totalAmount, 1)} :
              pay' = [pay EXCEPT !.payment = pay.store, !.store = st.store,
                                 !.totalAmount = totalAmount, !.prepared = st.prepared,
                                 !.pc = "await"]
       ELSE pay' = [pay EXCEPT !.payment = pay.store, !.store = pending,
                               !.totalAmount = totalAmount, !.prepared = <<>>,
                               !.pc = "invoice"]
  /\ UNCHANGED <<relay, events, deletions, eventsFile, deletionsFile, subscriptions, out, last,
                 restarts, running, writeFailures, shutdown, loop>>

\* Promise.all has the results of the payments of the round.
Settle(allPaid) ==
  /\ pay.pc = "await"
  /\ pay' = [pay EXCEPT !.store = updatePaymentState(@,
                                     [lastPaymentStatus |-> IF allPaid THEN "success"
                                                            ELSE "failed"]),
                        !.pc = "idle", !.rounds = @ + 1]
  /\ UNCHANGED <<relay, events, deletions, eventsFile, deletionsFile, subscriptions, out, last,
                 restarts, running, writeFailures, shutdown, loop>>

\* Without splits: the invoice arrives, or the request fails and the catch
\* block ends the round.
InvoiceIssued(issued) ==
  /\ pay.pc = "invoice"
  /\ pay' = IF issued
            THEN [pay EXCEPT !.store = updatePaymentState(@,
                                         [totalPaid |-> pay.payment.totalPaid + pay.totalAmount]),
                             !.prepared = <<pay.totalAmount>>,
                             !.pc = "send"]
            ELSE [pay EXCEPT !.store = updatePaymentState(@, [lastPaymentStatus |-> "failed"]),
                             !.pc = "idle", !.rounds = @ + 1]
  /\ UNCHANGED <<relay, events, deletions, eventsFile, deletionsFile, subscriptions, out, last,
                 restarts, running, writeFailures, shutdown, loop>>

\* Without splits: nwc.sendPayment returns with a preimage or not.
PaymentSent(paid) ==
  /\ pay.pc = "send"
  /\ pay' = [pay EXCEPT !.store = updatePaymentState(@,
                                     [lastPaymentStatus |-> IF paid THEN "success" ELSE "failed"]),
                        !.pc = "idle", !.rounds = @ + 1]
  /\ UNCHANGED <<relay, events, deletions, eventsFile, deletionsFile, subscriptions, out, last,
                 restarts, running, writeFailures, shutdown, loop>>

\* A track has been set and plays at some position; nothing has been paid.
InitPay ==
  /\ relay = "client"
  /\ events = <<>>
  /\ deletions = {}
  /\ eventsFile = NoFile
  /\ deletionsFile = [st |-> "missing", data |-> {}]
  /\ subscriptions = <<>>
  /\ out = <<>>
  /\ last = [type |-> "start"]
  /\ restarts = 0
  /\ running = TRUE
  /\ writeFailures = 0
  /\ shutdown = FALSE
  /\ loop = LoopIdle
  /\ \E track \in Tracks, currentTime \in {5, 15} :
       pay = [track |-> track, currentTime |-> currentTime,
              store |-> initialPaymentState, payment |-> initialPaymentState,
              totalAmount |-> 0, prepared |-> <<>>, pc |-> "idle", rounds |-> 0]

NextPay ==
  \/ StartPayment
  \/ \E allPaid \in BOOLEAN : Settle(allPaid)
  \/ \E issued \in BOOLEAN : InvoiceIssued(issued)
  \/ \E paid \in BOOLEAN : PaymentSent(paid)

SpecPay == InitPay /\ [][NextPay]_vars

----------------------------------------------------------------------------
\* Vocabulary of the properties.

ValidEvent(e) == e.shape /\ e.sig

\* The ids named by the e tags of an event, in tag order.
ETargets(e) ==
  LET es == SelectSeq(e.tags, LAMBDA t : Len(t) >= 2 /\ t[1] = "e")
  IN [k \in 1..Len(es) |-> es[k][2]]

\* The ids of the events carried by the EVENT frames of a frame list.
ReplayIds(o) == {o[i].frame.event.id : i \in {j \in 1..Len(o) : o[j].frame.type = "EVENT"}}

----------------------------------------------------------------------------
\* C1: in every reachable state of the persist relay, whatever the files held
\* at startup and whatever frames followed, no id is both in the live Map
\* events and in the tombstone Set deletions.
EventsDeletionsDisjoint ==
  relay = "persist" => MapKeys(events) \cap deletions = {}

\* A deletion has just tombstoned an id while another event stays live.
EventsDeletionsDisjointWitness ==
  /\ relay = "persist"
  /\ last.type = "EVENT" /\ last.event.kind = DeletionKind
  /\ out[1].frame.accepted
  /\ deletions # {} /\ events # <<>>

\* C2: while the persist relay runs, the tombstone set never shrinks, a
\* tombstoned id never enters the live Map, a valid music event whose id is
\* tombstoned is answered OK false "previously deleted" and nothing else, and
\* no REQ replay carries a tombstoned id.
TombstonePermanence ==
  [][(relay = "persist" /\ last'.type # "restart") =>
       /\ deletions \subseteq deletions'
       /\ \A id \in deletions : ~MapHas(events', id)
       /\ (last'.type = "EVENT" /\ ValidEvent(last'.event)
             /\ last'.event.kind = MusicKind /\ last'.event.id \in deletions)
            => out' = <<Send(last'.conn, OK(last'.event.id, FALSE,
                                            "invalid: event was previously deleted", <<>>))>>
       /\ last'.type = "REQ" => ReplayIds(out') \cap deletions' = {}]_vars

\* A music event is resubmitted after its owner deleted it in this run.
TombstonePermanenceWitness ==
  /\ relay = "persist"
  /\ last.type = "EVENT" /\ ValidEvent(last.event) /\ last.event.kind = MusicKind
  /\ last.event.id \in deletions
  /\ deletionsFile = saveDeletions(deletions)
  /\ out[1].frame.reason = "invalid: event was previously deleted"

\* Both files hold what the process wrote last: the Map and the Set as they are.
FilesWritten ==
  /\ eventsFile = saveEvents(events)
  /\ deletionsFile = saveDeletions(deletions)

\* C3: when the persist relay is restarted from the files it wrote - after a
\* SIGINT flush whose writes succeeded, or with both files as the write-through
\* left them and no failed flush has truncated one - the load
\* brings back exactly the live events the process held (the N-M undeleted
\* ones) and exactly its tombstones (so the M deleted ids stay rejected, C2).
RestartDurability ==
  [][(/\ relay = "persist" /\ last'.type = "restart"
      /\ \/ last'.sigint /\ last'.io = [e |-> "ok", d |-> "ok"]
         \/ FilesWritten /\ last'.io.e # "blank" /\ last'.io.d # "blank") =>
       /\ events' = events
       /\ deletions' = deletions]_vars

\* The relay came back from its own files with live events and tombstones.
RestartDurabilityWitness ==
  /\ relay = "persist"
  /\ last.type = "restart" /\ ~last.sigint
  /\ FilesWritten
  /\ events # <<>> /\ deletions # {}

IdempotentDeletion ==
  [][relay = "persist" =>
       /\ (last'.type = "EVENT" /\ ValidEvent(last'.event) /\ last'.event.kind = DeletionKind) =>
            LET e == last'.event
                targets == ETargets(e)
                reply == out'[1].frame
            IN \A k \in 1..Len(targets) :
                 LET id == targets[k]
                     owned == MapHas(events, id) /\ MapGet(events, id).pubkey = e.pubkey
                     first == \A j \in 1..(k - 1) : targets[j] # id
                 IN (owned \/ id \in deletions) =>
                      /\ reply.type = "OK" /\ reply.accepted /\ reply.reason = "results"
                      /\ Len(reply.results) = Len(targets)
                      /\ reply.results[k] =
                           Outcome(IF owned /\ first THEN "deleted" ELSE "already deleted", id)
                      /\ ~MapHas(events', id)
                      /\ id \in deletions'
       /\ last'.type = "REQ" => ReplayIds(out') \subseteq MapKeys(events') \ deletions']_vars

\* The owner's second deletion event for an id it deleted before.
IdempotentDeletionWitness ==
  /\ relay = "persist"
  /\ last.type = "EVENT" /\ ValidEvent(last.event) /\ last.event = DeletionEvent("P", 1)
  /\ out[1].frame.accepted
  /\ out[1].frame.results = <<Outcome("already deleted", 1)>>
  /\ 1 \in deletions /\ ~MapHas(events, 1)

\* C7: in every relay an event that fails validateEvent or the signature check
\* changes nothing - Map, tombstones, files, registry - and is answered by one
\* OK false frame and nothing else; the structure check decides first, so an
\* event that fails both carries the structure reason where the reasons differ.
InvalidNeverAdmitted ==
  [][(last'.type = "EVENT" /\ ~ValidEvent(last'.event)) =>
       /\ UNCHANGED <<events, deletions, eventsFile, deletionsFile, subscriptions>>
       /\ out' = <<Send(last'.conn,
                        OK(last'.event.id, FALSE,
                           IF relay = "registry" THEN "invalid: invalid signature"
                           ELSE IF ~last'.event.shape THEN "invalid: event structure is invalid"
                           ELSE "invalid: signature verification failed",
                           <<>>))>>]_vars

\* An event that fails both checks reached the persist relay while it holds
\* events, and was answered with the structure reason.
InvalidNeverAdmittedWitness ==
  /\ last.type = "EVENT" /\ ~last.event.shape /\ ~last.event.sig
  /\ events # <<>>
  /\ relay = "persist"
  /\ out[1].frame.reason = "invalid: event structure is invalid"

\* The filter semantics of the protocol: every constraint a filter has must
\* hold, and a subscription matches when any of its filters does.
Matches(e, f) ==
  /\ Has(f, "kinds") => e.kind \in Range(f.kinds)
  /\ Has(f, "ids") => e.id \in Range(f.ids)
  /\ Has(f, "authors") => e.pubkey \in Range(f.authors)
  /\ Has(f, "t") => \E v \in Range(f.t) : v \in TagValues(e, "t")

MatchesAny(e, fs) == \E i \in 1..Len(fs) : Matches(e, fs[i])

\* Some filter of the list names a kind the relay supports.
NamesSupportedKind(r, fs) ==
  \E i \in 1..Len(fs) :
     Has(fs[i], "kinds") /\ Range(fs[i].kinds) \cap {ContentKind(r), DeletionKind} # {}

\* C6: a valid event whose kind is neither the content kind nor 5 is answered
\* OK false and is not stored; the live Map holds supported kinds only, and so
\* does every REQ replay.
UnsupportedKindRejected ==
  /\ (last.type = "EVENT" /\ ValidEvent(last.event) /\ last.event.kind \notin validKinds(relay)) =>
       /\ out[1].frame.type = "OK" /\ ~out[1].frame.accepted
       /\ ~MapHas(events, last.event.id)
  /\ \A e \in Range(events) : e.kind \in validKinds(relay)
  /\ last.type = "REQ" =>
       \A i \in 1..Len(out) :
          out[i].frame.type = "EVENT" => out[i].frame.event.kind \in validKinds(relay)

\* C8: a REQ frame that carries a filter is answered, on the requesting
\* connection, with EVENT frames of its subscription id for distinct live
\* events and then exactly one EOSE, which is the last frame; a filter that
\* names only the content kind replays every live event of that kind.
ReplayThenEose ==
  (last.type = "REQ" /\ ~last.wrapped /\ Len(last.filters) >= 1) =>
     LET n == Len(out) IN
       /\ n >= 1
       /\ out[n] = Send(last.conn, EOSE(last.sub))
       /\ \A i \in 1..(n - 1) :
            /\ out[i].to = last.conn
            /\ out[i].frame.type = "EVENT"
            /\ out[i].frame.sub = last.sub
            /\ out[i].frame.event \in Range(events)
            /\ out[i].frame.event.id \notin deletions
            /\ \A j \in 1..(n - 1) : out[j].frame.event.id = out[i].frame.event.id => j = i
       /\ last.filters = <<[kinds |-> <<ContentKind(relay)>>]>> =>
            \A e \in Range(events) :
               (e.kind = ContentKind(relay) /\ e.id \notin deletions) => e.id \in ReplayIds(out)

\* C9: in the persist and registry relays, when a connection has been sent
\* EOSE for a REQ that names a supported kind and the next frame is an event
\* that is accepted and matches the REQ's filters, that connection is sent
\* EVENT(subId, event).
LiveDelivery ==
  [][(/\ relay \in {"persist", "registry"}
      /\ last.type = "REQ" /\ NamesSupportedKind(relay, last.filters)
      /\ \E i \in 1..Len(out) : out[i] = Send(last.conn, EOSE(last.sub))
      /\ last'.type = "EVENT" /\ out'[1].frame.accepted
      /\ MatchesAny(last'.event, last.filters))
     => \E i \in 1..Len(out') : out'[i] = Send(last.conn, EVENT(last.sub, last'.event))]_vars

\* C10: in the registry relay a rejected event is sent to no subscription, and
\* an event that matches none of the filters that the REQ handled just before
\* carried is not sent to that REQ's subscription.
BroadcastFiltered ==
  [][(relay = "registry" /\ last'.type = "EVENT") =>
       /\ ~out'[1].frame.accepted =>
            \A i \in 1..Len(out') : out'[i].frame.type # "EVENT"
       /\ (last.type = "REQ" /\ last.filters # <<>> /\ ~MatchesAny(last'.event, last.filters)) =>
            \A i \in 1..Len(out') : out'[i] # Send(last.conn, EVENT(last.sub, last'.event))]_vars

\* C11: a REQ frame with one filter that passes the kinds gate is answered with
\* exactly the live events that satisfy every constraint the filter has -
\* kinds, ids, authors, '#t' - and with no event whose kind the filter's kinds
\* do not list.  The frame has the shape the relay reads a filter from: the
\* frame's own argument in persist and index, the array argument in registry.
FilterConjunction ==
  (/\ last.type = "REQ" /\ Len(last.filters) = 1
   /\ last.wrapped = (relay = "registry")
   /\ NamesSupportedKind(relay, last.filters)) =>
     LET f == last.filters[1] IN
       /\ ReplayIds(out) =
            {e.id : e \in {x \in Range(events) : x.id \notin deletions /\ Matches(x, f)}}
       /\ \A i \in 1..Len(out) :
            out[i].frame.type = "EVENT" => out[i].frame.event.kind \in Range(f.kinds)

\* C12: the filters of one REQ are alternatives.  In the persist and registry
\* relays a REQ ["REQ", sub, f1, f2] replays every live event that satisfies
\* any of its filters - so an event that satisfies f2 and not f1 is sent, and
\* [{kinds:[K]}-like f1, {authors:[A]}] sends the events of author A - while
\* the single filter {kinds:[K], authors:[A]} sends no event of another author.
FilterAlternatives ==
  (relay \in {"persist", "registry"} /\ last.type = "REQ" /\ ~last.wrapped) =>
     /\ Len(last.filters) >= 2 =>
          \A e \in Range(events) :
             (e.id \notin deletions /\ MatchesAny(e, last.filters)) => e.id \in ReplayIds(out)
     /\ last.filters = <<[kinds |-> <<ContentKind(relay)>>, authors |-> <<"Q">>]>> =>
          \A i \in 1..Len(out) :
             out[i].frame.type = "EVENT" => out[i].frame.event.pubkey = "Q"

\* C13: in the persist and index relays a REQ whose filters - it carries at
\* least one - do not constrain kinds to a supported kind (kinds absent, empty
\* or unsupported only) is answered with EOSE(subId) and nothing else: no
\* EVENT frame, no subscription registered, store and files unchanged.
UnsupportedReqEoseOnly ==
  [][(/\ relay \in {"persist", "index"}
      /\ last'.type = "REQ" /\ ~last'.wrapped /\ Len(last'.filters) >= 1
      /\ ~NamesSupportedKind(relay, last'.filters)) =>
       /\ out' = <<Send(last'.conn, EOSE(last'.sub))>>
       /\ UNCHANGED <<events, deletions, eventsFile, deletionsFile, subscriptions>>]_vars

\* The persist relay holds live events and was asked for kind 1 only.
UnsupportedReqEoseOnlyWitness ==
  /\ relay = "persist"
  /\ last.type = "REQ" /\ last.filters = <<[kinds |-> <<TextNoteKind>>]>>
  /\ \E e \in Range(events) : e.id \notin deletions
  /\ out = <<Send(last.conn, EOSE(last.sub))>>

\* The pairs (connection, subId) the registry holds.
Registered(subs) ==
  UNION {{<<c, subs[i].sub>> : c \in Range(subs[i].clients)} : i \in 1..Len(subs)}

\* How many times frame f is sent to connection c in the frame list o.
Sent(o, c, f) == Cardinality({i \in 1..Len(o) : o[i] = Send(c, f)})

\* C14: in the registry relay, after a REQ for a (connection, subId) that was
\* registered already, the registry holds one entry for subId with the
\* connection in it once; the event accepted next is sent to that subscription
\* at most once, and not at all when it matches none of the filters of this
\* second REQ.
ResubscribeReplaces ==
  [][(relay = "registry" /\ last.type = "REQ" /\ last.known) =>
       /\ Cardinality({i \in 1..Len(subscriptions) : subscriptions[i].sub = last.sub}) = 1
       /\ \A i \in 1..Len(subscriptions) :
            subscriptions[i].sub = last.sub =>
               Cardinality({j \in 1..Len(subscriptions[i].clients) :
                               subscriptions[i].clients[j] = last.conn}) = 1
       /\ (last'.type = "EVENT" /\ out'[1].frame.accepted) =>
            /\ Sent(out', last.conn, EVENT(last.sub, last'.event)) <= 1
            /\ (last.filters # <<>> /\ ~MatchesAny(last'.event, last.filters)) =>
                  Sent(out', last.conn, EVENT(last.sub, last'.event)) = 0]_vars

\* C15: in the registry relay CLOSE(subId) is answered with no frame and takes
\* exactly the pair (connection, subId) out of the registry, leaving the store
\* and every other pair - the same subId of another connection included - as
\* they were.  An accepted event is sent only to pairs the registry holds, a
\* REQ replays only to its own pair, and a pair enters the registry only by a
\* REQ of that connection for that subId: so after CLOSE no EVENT frame for
\* subId goes to the connection until it sends a new REQ.
CloseUnsubscribes ==
  [][relay = "registry" =>
       /\ last'.type = "CLOSE" =>
            /\ out' = <<>>
            /\ Registered(subscriptions') =
                 Registered(subscriptions) \ {<<last'.conn, last'.sub>>}
            /\ UNCHANGED <<events, deletions>>
       /\ \A i \in 1..Len(out') :
            out'[i].frame.type = "EVENT" =>
               IF last'.type = "EVENT"
               THEN <<out'[i].to, out'[i].frame.sub>> \in Registered(subscriptions)
               ELSE /\ last'.type = "REQ"
                    /\ out'[i].to = last'.conn /\ out'[i].frame.sub = last'.sub
       /\ \A p \in Registered(subscriptions') \ Registered(subscriptions) :
            last'.type = "REQ" /\ p = <<last'.conn, last'.sub>>]_vars

\* A connection closed a subscription it had while another connection stays
\* subscribed under the same id and the store holds events.
CloseUnsubscribesWitness ==
  /\ relay = "registry"
  /\ last.type = "CLOSE" /\ last.known
  /\ <<last.conn, last.sub>> \notin Registered(subscriptions)
  /\ \E c \in Conns \ {last.conn} : <<c, last.sub>> \in Registered(subscriptions)
  /\ events # <<>>

\* The connections that have an entry in the registry.
Subscribers(subs) == {p[1] : p \in Registered(subs)}

\* C16: when the transport of a connection is torn down (registry and persist
\* relays) nothing is sent and afterwards no registry entry refers to the
\* connection.  The frames of an accepted event go only to connections that
\* have an entry, and a connection without entries gets one only by its own
\* REQ: so no later broadcast reaches the closed connection, and a client that
\* connects again starts without subscriptions.
TeardownUnregisters ==
  [][(relay \in {"registry", "persist"}) =>
       /\ last'.type = "close" =>
            /\ out' = <<>>
            /\ last'.conn \notin Subscribers(subscriptions')
       /\ last'.type = "EVENT" =>
            \A i \in 1..Len(out') :
               out'[i].frame.type = "EVENT" => out'[i].to \in Subscribers(subscriptions)
       /\ \A c \in Subscribers(subscriptions') \ Subscribers(subscriptions) :
            (last'.type = "REQ" /\ c = last'.conn)]_vars

\* A subscribed connection was torn down while another one stays subscribed.
TeardownUnregistersWitness ==
  /\ relay = "registry"
  /\ last.type = "close" /\ last.known
  /\ Subscribers(subscriptions) = Conns \ {last.conn}
  /\ events # <<>>

\* C17: in the registry relay the teardown of a connection leaves the live
\* events, the tombstones, the files and every registry pair of the other
\* connections as they were; the only state it removes is pairs of the closing
\* connection.
ConnectionIsolation ==
  [][(relay = "registry" /\ last'.type = "close") =>
       /\ UNCHANGED <<events, deletions, eventsFile, deletionsFile>>
       /\ {p \in Registered(subscriptions') : p[1] # last'.conn}
            = {p \in Registered(subscriptions) : p[1] # last'.conn}
       /\ Registered(subscriptions') \subseteq Registered(subscriptions)]_vars

\* A subscribed connection was torn down; the other connection keeps both of
\* its subscriptions and the store keeps its two events.
ConnectionIsolationWitness ==
  /\ relay = "registry"
  /\ last.type = "close" /\ last.known
  /\ Registered(subscriptions) = (Conns \ {last.conn}) \X SubIds
  /\ Len(events) >= 2

\* C18: in the persist and registry relays a frame that does not decode - not
\* JSON, or JSON whose top-level shape is none of EVENT, REQ, CLOSE - is
\* answered with no frame, changes neither the store nor the files nor the
\* registry, and leaves the relay up to handle the next frame.
DecodeErrorsDropped ==
  [][(relay \in {"persist", "registry"} /\ last'.type = "OTHER") =>
       /\ out' = <<>>
       /\ UNCHANGED <<events, deletions, eventsFile, deletionsFile, subscriptions>>
       /\ running']_vars

\* C19: in the persist relay no client frame is fatal: whatever the frame -
\* JSON that is not an array, an EVENT frame without an event object, a REQ
\* frame without a filter among them - no exception leaves the message
\* handler, the relay stays up, and such a broken frame leaves the store and
\* the files unchanged.
NoFrameIsFatal ==
  [][(relay = "persist" /\ last'.type # "restart") =>
       /\ running'
       /\ "escaped" \in DOMAIN last' => ~last'.escaped
       /\ (\/ last'.type \in {"OTHER", "NOEVENT"}
           \/ last'.type = "REQ" /\ last'.filters = <<>> /\ ~last'.wrapped) =>
            UNCHANGED <<events, deletions, eventsFile, deletionsFile>>]_vars

\* C20: when a write of the events file or of the tombstone file throws while
\* the persist relay handles an EVENT frame, the relay stays up, the change in
\* memory is made all the same - the music event is in the live Map, every
\* target the deletion's publisher owns is out of the Map and tombstoned - and
\* the sender gets the one OK true reply of a successful write.
WriteErrorsNotFatal ==
  [][(/\ relay = "persist" /\ last'.type = "EVENT"
      /\ Failed(last'.io.e) \/ Failed(last'.io.d)) =>
       LET e == last'.event
           reply == out'[1].frame
       IN /\ running'
          /\ out' = <<Send(last'.conn, reply)>>
          /\ reply.type = "OK" /\ reply.id = e.id /\ reply.accepted
          /\ e.kind = MusicKind =>
               /\ MapHas(events', e.id) /\ MapGet(events', e.id) = e
               /\ reply = OK(e.id, TRUE, "", <<>>)
          /\ e.kind = DeletionKind =>
               /\ reply.reason = "results"
               /\ Len(reply.results) = Len(ETargets(e))
               /\ \A id \in Range(ETargets(e)) :
                    (MapHas(events, id) /\ MapGet(events, id).pubkey = e.pubkey) =>
                       /\ ~MapHas(events', id)
                       /\ id \in deletions']_vars

\* The tombstone file could not be written for an accepted deletion: the
\* tombstone is in memory and not in the file, and the reply is OK true.
WriteErrorsNotFatalWitness ==
  /\ relay = "persist" /\ running
  /\ last.type = "EVENT" /\ last.event.kind = DeletionKind
  /\ Failed(last.io.d)
  /\ deletions # {} /\ deletionsFile # saveDeletions(deletions)
  /\ out[1].frame.accepted

\* C21: a start of the persist relay - the first, or a restart - always comes
\* up; an events file that is not JSON has been copied to a backup and
\* rewritten as an empty array with the live Map left empty, and a tombstone
\* file that is not JSON has been copied to a backup and rewritten as an empty
\* array with the tombstone Set left empty.
CorruptFilesReset ==
  (relay = "persist" /\ last.type \in {"start", "restart"}) =>
     /\ running
     /\ last.read.e.st = "corrupt" =>
          /\ "events" \in last.backups
          /\ eventsFile = EventsArrayFile(<<>>)
          /\ events = <<>>
     /\ last.read.d.st = "corrupt" =>
          /\ "deletions" \in last.backups
          /\ deletionsFile = DeletionsArrayFile({})
          /\ deletions = {}

\* C22: in the persist relay the SIGINT handler, when its writes succeed,
\* leaves both files holding the live Map and the tombstone Set while the
\* process is still up; from then until the exit every step in which no write
\* fails keeps the files so; and the process exits on SIGINT only after the
\* handler has run.  So it never exits on SIGINT with a change that is in
\* memory and in neither file.
ShutdownFlush ==
  [][relay = "persist" =>
       /\ (last'.type = "sigint" /\ last'.io = [e |-> "ok", d |-> "ok"]) =>
            /\ eventsFile' = saveEvents(events) /\ deletionsFile' = saveDeletions(deletions)
            /\ UNCHANGED <<events, deletions>>
            /\ running' /\ shutdown'
       /\ (shutdown /\ FilesWritten /\ writeFailures' = writeFailures) =>
            /\ eventsFile' = saveEvents(events')
            /\ deletionsFile' = saveDeletions(deletions')
       /\ last'.type = "exit" =>
            /\ shutdown /\ ~running'
            /\ UNCHANGED <<events, deletions, eventsFile, deletionsFile>>]_vars

\* The SIGINT handler has saved tombstones and events after an earlier write
\* had failed; the exit is still to come.
ShutdownFlushWitness ==
  /\ relay = "persist"
  /\ last.type = "sigint" /\ last.io = [e |-> "ok", d |-> "ok"]
  /\ writeFailures = 1
  /\ shutdown /\ running
  /\ FilesWritten
  /\ events # <<>> /\ deletions # {}

\* C23: in the persist and index relays a valid deletion event with a
\* well-formed e tag is answered OK true exactly when one of its targets is
\* stored under the event's pubkey or is tombstoned (outcome deleted or
\* already deleted); every target stored under the event's pubkey is removed
\* whatever the outcomes of the other targets; and the reply lists one outcome
\* per e tag, in tag order, each one of deleted, already deleted, unauthorized,
\* not found with the tag's id.
DeletionOutcomes ==
  [][(/\ relay \in {"persist", "index"}
      /\ last'.type = "EVENT" /\ ValidEvent(last'.event)
      /\ last'.event.kind = DeletionKind /\ hasValidDeletionTag(last'.event)) =>
       LET e == last'.event
           targets == ETargets(e)
           reply == out'[1].frame
           owned(id) == MapHas(events, id) /\ MapGet(events, id).pubkey = e.pubkey
       IN /\ reply.type = "OK"
          /\ reply.accepted <=> \E k \in 1..Len(targets) :
                                   owned(targets[k]) \/ targets[k] \in deletions
          /\ \A k \in 1..Len(targets) : owned(targets[k]) => ~MapHas(events', targets[k])
          /\ Len(reply.results) = Len(targets)
          /\ \A k \in 1..Len(targets) :
               /\ reply.results[k].id = targets[k]
               /\ reply.results[k].outcome \in
                    {"deleted", "already deleted", "unauthorized", "not found"}]_vars

\* A tag named e whose second element is a non-empty string.
WellFormedETag(t) == Len(t) >= 2 /\ t[1] = "e" /\ t[2] # 0

\* C24: in the persist relay a valid kind-5 event without a well-formed e tag
\* is answered with the one frame OK false "deletion event must have a valid
\* e tag", which carries no per-target outcome, and the live Map, the
\* tombstone Set and both files stay as they were.
MissingETagRejected ==
  [][(/\ relay = "persist"
      /\ last'.type = "EVENT" /\ ValidEvent(last'.event)
      /\ last'.event.kind = DeletionKind
      /\ \A i \in 1..Len(last'.event.tags) : ~WellFormedETag(last'.event.tags[i])) =>
       /\ out' = <<Send(last'.conn,
                        OK(last'.event.id, FALSE,
                           "invalid: deletion event must have a valid e tag", <<>>))>>
       /\ UNCHANGED <<events, deletions, eventsFile, deletionsFile>>]_vars

\* A deletion event whose only e tag names the empty string reached the
\* persist relay while it holds live events and tombstones.
MissingETagRejectedWitness ==
  /\ relay = "persist"
  /\ last.type = "EVENT" /\ ValidEvent(last.event)
  /\ last.event.kind = DeletionKind /\ last.event.tags = <<ETag(0)>>
  /\ events # <<>> /\ deletions # {}
  /\ out[1].frame.reason = "invalid: deletion event must have a valid e tag"


\* The handler invocations that have started and not ended.
InFlight == {loop.onStack[i] : i \in DOMAIN loop.onStack} \cup loop.suspended

\* C25: the handling of a frame is atomic and ordered.  At most one handler
\* invocation has started and not ended, so the phases of one frame (parse,
\* check and store or delete or scan, save, send) never interleave with those
\* of another and store-mutating frames of different connections take effect
\* one after the other: between the phase that changes or scans the store and
\* the reply, the store is as that phase left it.  The frames of a connection
\* are handled to the end in the order of their arrival.
FramesAtomicOrdered ==
  /\ Cardinality(InFlight) <= 1
  /\ \A inv \in InFlight :
       /\ inv.n = Len(loop.done[inv.conn]) + 1
       /\ inv.pc \in {"save", "send"} =>
            events = inv.result.events /\ deletions = inv.result.deletions
  /\ \A c \in Conns : \A i \in DOMAIN loop.done[c] : loop.done[c][i] = i

\* A deletion of one connection is between its save and its reply while an
\* EVENT frame of the other connection waits, after an earlier frame was handled.
FramesAtomicOrderedWitness ==
  \E inv \in InFlight : \E d \in Conns \ {inv.conn} :
    /\ inv.pc = "send" /\ inv.result.saveD
    /\ loop.done[inv.conn] # <<>>
    /\ loop.inbox[d] # <<>> /\ Head(loop.inbox[d]).frame.type = "EVENT"

\* C26: in the registry relay no matching event falls between replay and
\* broadcast.  A REQ registers its (connection, subId) and replays to it every
\* stored event that matches one of its filters; an EVENT frame that is
\* accepted is sent to every (connection, subId) registered at that time.
\* Frames are handled one at a time, so an event accepted before the CLOSE is
\* either stored when the REQ scans or accepted after the registration.
NoDeliveryGap ==
  [][relay = "registry" =>
       /\ last'.type = "REQ" =>
            /\ <<last'.conn, last'.sub>> \in Registered(subscriptions')
            /\ \A e \in Range(events) :
                 MatchesAny(e, last'.filters) => Sent(out', last'.conn, EVENT(last'.sub, e)) >= 1
       /\ (last'.type = "EVENT" /\ out'[1].frame.accepted) =>
            \A p \in Registered(subscriptions) :
               Sent(out', p[1], EVENT(p[2], last'.event)) >= 1]_vars

\* C27: in the persist and index relays every EVENT frame that parses as a
\* JSON array - with an event or without one - is answered with exactly one
\* frame, an OK frame on the connection that sent it, whatever path the
\* handler takes.
OneOkPerEventFrame ==
  [][(relay \in {"persist", "index"} /\ last'.type \in {"EVENT", "NOEVENT"}) =>
       /\ Len(out') = 1
       /\ out'[1].to = last'.conn
       /\ out'[1].frame.type = "OK"]_vars

\* C28: in the persist relay a tombstone file that parses as a JSON array is
\* honoured whatever the events file holds.  After a start every id of the
\* file the load found is in the tombstone set; an event whose id is in the
\* tombstone file is not accepted; and a step in which no write fails keeps
\* every id the tombstone file held.
TombstoneFileHonoured ==
  [][relay = "persist" =>
       /\ (last.type \in {"start", "restart"} /\ last.read.d.st = "array") =>
            last.read.d.data \subseteq deletions
       /\ (/\ deletionsFile.st = "array"
           /\ last'.type = "EVENT" /\ last'.event.kind = ContentKind(relay)
           /\ last'.event.id \in deletionsFile.data) =>
            ~out'[1].frame.accepted
       /\ (/\ deletionsFile.st = "array" /\ deletionsFile'.st = "array"
           /\ writeFailures' = writeFailures) =>
            deletionsFile.data \subseteq deletionsFile'.data]_vars

\* C29: in the persist relay tombstones come only from deletions by the
\* publisher.  A relay started without files has no tombstone in memory or on
\* file; a frame adds an id to the tombstone set only when it is a valid
\* deletion event that names the id in an e tag while the live Map holds the
\* id under the deletion's own pubkey; a restart brings in only ids that the
\* set or the tombstone file held, and the file gains only ids of the set.  So
\* a target that is not found or not the sender's leaves no tombstone, and a
\* valid music event whose id is not tombstoned is accepted and stored.
TombstonesOnlyByPublisher ==
  [][relay = "persist" =>
       /\ (last.type = "start" /\ last.read.e.st = "missing" /\ last.read.d.st = "missing") =>
            deletions = {} /\ deletionsFile = DeletionsArrayFile({})
       /\ last'.type # "restart" =>
            \A id \in deletions' \ deletions :
               /\ last'.type = "EVENT" /\ last'.event.kind = DeletionKind
               /\ last'.event.shape /\ last'.event.sig
               /\ \E i \in 1..Len(last'.event.tags) : last'.event.tags[i] = ETag(id)
               /\ MapHas(events, id) /\ MapGet(events, id).pubkey = last'.event.pubkey
       /\ last'.type = "restart" =>
            deletions' \subseteq deletions \cup deletionsFile.data
       /\ deletionsFile'.data \ deletionsFile.data \subseteq deletions \cup deletions'
       /\ (/\ last'.type = "EVENT" /\ last'.event.kind = MusicKind
           /\ last'.event.shape /\ last'.event.sig /\ last'.event.id \notin deletions) =>
            out'[1].frame.accepted /\ MapHas(events', last'.event.id)]_vars

\* A deletion event has deleted the sender's event 2 and found its other
\* target, 1, not stored: 2 is tombstoned and 1 is not.
TombstonesOnlyByPublisherWitness ==
  /\ relay = "persist"
  /\ last.type = "EVENT" /\ last.event.kind = DeletionKind
  /\ Len(out) = 1 /\ out[1].frame.accepted
  /\ \E i, j \in 1..Len(out[1].frame.results) :
       /\ out[1].frame.results[i] = Outcome("not found", 1)
       /\ out[1].frame.results[j] = Outcome("deleted", 2)
  /\ deletions = {2}

\* C30: in a payment round with splits, when every payment of the round has
\* been prepared, the stored totalPaid exceeds the totalPaid the round started
\* from by the sum of the prepared amounts - the primary amount and every
\* split amount.
TotalPaidCountsRound ==
  (pay.pc = "await") =>
     pay.store.totalPaid = pay.payment.totalPaid + SumSeq(pay.prepared)
====
